---- MODULE Spec2Model ----
(***************************************************************************)
(* Model of the video translation pipeline of ArtichaTM/translator:        *)
(* FFMpeg.run and its three stage threads (_stt, _texts,                   *)
(* _translated_texts), the subtitle writer (subtitles_write), the          *)
(* Translator routing and the scoped scratch directory of FFMpeg.          *)
(*                                                                         *)
(* Times are whole milliseconds.  A text is [src, route]: the index of the *)
(* recognized line it comes from and the chain of target codes of the      *)
(* translation capabilities applied to it.                                 *)
(***************************************************************************)
EXTENDS Integers, Sequences, FiniteSets, TLC

VARIABLES
    pcMain,               \* position of the caller: main() / FFMpeg.run
    tempDirectory,        \* the TemporaryDirectory on disk: "none" | "exists" | "removed"
    tempDirectory_path,   \* FFMpeg._tempDirectory_path: "None" | "tmp"
    installed,            \* argostranslate installed packages, <<from, to>>
    audio_codes,          \* run(audio_codes=...)
    subtitle_codes,       \* run(subtitle_codes=...)
    russian_texts,        \* Queue: _stt -> _texts
    translated_texts,     \* Queue: _texts -> _translated_texts
    sentences_origin,     \* Queue of fragments, companion of translated_texts
    translated_audio,     \* list shared with _translated_texts
    translated_subtitles, \* list shared with _texts and _translated_texts
    pcA, emitted, lastEnd, recognized, \* _stt; recognized: the lines it has put, in order
    pcB, translator, bLine, bBatch, ru_subs_writer,   \* _texts
    pcC, lines, sentence_origin, previous_lines, subs_writers, toRegister, \* _translated_texts
    built,                \* containers handed to build_mc, in order
    putB, putF, gotC,     \* history: batches/fragments put by _texts, pairs taken by _translated_texts
    sink, sinkCalls,      \* one subtitles_write generator used on its own, and the calls made on it
    trOut, trCodes,       \* results of Translator.translate and Translator.available_codes
    targetFile, ffmpegCalls, muxOut, \* build_mc: the target file, the _call_ffmpeg invocations, the last call's locals
    parsed,               \* the last info_parse call: its report and its outcome
    mainOut,              \* the last run of the command line: its arguments and its outcome
    opOut                 \* the last FFMpeg file operation: its arguments and its outcome

vars == <<pcMain, tempDirectory, tempDirectory_path, installed, audio_codes,
          subtitle_codes, russian_texts, translated_texts, sentences_origin,
          translated_audio, translated_subtitles, pcA, emitted, lastEnd, recognized,
          pcB, translator, bLine, bBatch, ru_subs_writer,
          pcC, lines, sentence_origin, previous_lines, subs_writers, toRegister,
          built, putB, putF, gotC, sink, sinkCalls, trOut, trCodes,
          targetFile, ffmpegCalls, muxOut, parsed, mainOut, opOut>>

mainVars == <<pcMain, tempDirectory, tempDirectory_path, built>>
inputVars == <<installed, audio_codes, subtitle_codes>>
aVars == <<pcA, emitted, lastEnd, recognized>>
bVars == <<pcB, translator, bLine, bBatch, ru_subs_writer>>
cVars == <<pcC, lines, sentence_origin, previous_lines, subs_writers, toRegister>>
histVars == <<putB, putF, gotC>>
sinkVars == <<sink, sinkCalls>>
trVars == <<trOut, trCodes>>
muxVars == <<targetFile, ffmpegCalls, muxOut>>
\* the state of the components exercised on their own
callVars == <<parsed, mainOut, opOut>>
unitVars == <<sinkVars, trVars, muxVars, callVars>>
\* the state of one run of the pipeline
runVars == <<mainVars, audio_codes, subtitle_codes, russian_texts, translated_texts,
             sentences_origin, translated_audio, translated_subtitles, aVars,
             pcB, bLine, bBatch, ru_subs_writer, cVars, histVars>>

----------------------------------------------------------------------------
(* Bounds and input sets *)

MaxLines == 3

\* gap between the end of a recognized line and the start of the next
Gaps == {-500, 0, 750}
\* duration of a recognized line
Durations == {1500}
\* start of the first recognized line
FirstStarts == {250}

\* iteration order of the code sets
CodeOrder == <<"ru", "en", "fr">>

AudioChoices == SUBSET {"en", "fr"}
SubtitleChoices == SUBSET {"ru", "en", "fr"}

InstalledChoices ==
    { {<<"ru", "en">>, <<"en", "ru">>, <<"en", "fr">>},
      {<<"ru", "en">>, <<"en", "ru">>},
      {<<"ru", "en">>, <<"en", "fr">>} }

----------------------------------------------------------------------------
(* Queue items: Python's None sentinel next to real items *)

None == [none |-> TRUE]
Some(v) == [none |-> FALSE, val |-> v]

RECURSIVE InOrder(_, _)
\* the codes of S as a sequence, in CodeOrder
InOrder(S, i) ==
    IF i > Len(CodeOrder) THEN <<>>
    ELSE IF CodeOrder[i] \in S THEN <<CodeOrder[i]>> \o InOrder(S, i + 1)
    ELSE InOrder(S, i + 1)

----------------------------------------------------------------------------
(* subtitles.py *)

Line(start, end, text, lang) ==
    [start |-> start, end |-> end, text |-> text, lang |-> lang]

Digit(d) == <<"0", "1", "2", "3", "4", "5", "6", "7", "8", "9">>[d + 1]

RECURSIVE DigitsOf(_)
\* the decimal digits of n >= 0
DigitsOf(n) == IF n < 10 THEN <<Digit(n)>> ELSE DigitsOf(n \div 10) \o <<Digit(n % 10)>>

RECURSIVE Zeros(_)
Zeros(k) == IF k <= 0 THEN <<>> ELSE <<"0">> \o Zeros(k - 1)

\* the format specs 02.0f and 03.0f: zero-padded to a minimum width
ZeroPad(n, width) == Zeros(width - Len(DigitsOf(n))) \o DigitsOf(n)

\* a formatter that takes the milliseconds from the whole seconds
float_to_srt_time_NoFraction(value) ==
    LET microseconds == (value \div 1000) % 1000
        seconds == (value \div 1000) % 60
        minutes0 == value \div 60000
        hours == minutes0 \div 60
        minutes == minutes0 % 60
    IN ZeroPad(hours, 2) \o <<":">> \o ZeroPad(minutes, 2) \o <<":">>
       \o ZeroPad(seconds, 2) \o <<",">> \o ZeroPad(microseconds, 3)

\* Line.float_to_srt_time, on whole milliseconds; the string as a sequence of
\* characters
float_to_srt_time(value) ==
    LET microseconds == value % 1000
        seconds == (value \div 1000) % 60
        minutes0 == value \div 60000
        hours == minutes0 \div 60
        minutes == minutes0 % 60
    IN ZeroPad(hours, 2) \o <<":">> \o ZeroPad(minutes, 2) \o <<":">>
       \o ZeroPad(seconds, 2) \o <<",">> \o ZeroPad(microseconds, 3)

as_srt_line(line) ==
    [from |-> float_to_srt_time(line.start), to |-> float_to_srt_time(line.end),
     text |-> line.text]

\* str.endswith('.srt') on a name given as its pieces between dots
EndsWithSrt(name) == Len(name) >= 2 /\ name[Len(name)] = "srt"

\* the path normalisation at the head of subtitles_write; a path is
\* [type, parent, name], type "str" or "Path", name the pieces between dots
subtitles_path(path) ==
    IF EndsWithSrt(path.name) THEN [path EXCEPT !.type = "Path"]
    ELSE IF path.type = "str"
    THEN [path EXCEPT !.type = "Path", !.name = Append(@, "str")]
    ELSE [path EXCEPT !.name = <<@[1], "str">>]

\* subtitles_write up to the first yield: next(gen)
subtitles_write(path) ==
    [path |-> subtitles_path(path), counter |-> 1, file |-> <<>>, closed |-> FALSE,
     raised |-> "none"]

\* a send that writes its block at the head of the file
Send_AtHead(w, line) ==
    [w EXCEPT !.file = <<[number |-> w.counter, body |-> [from |-> float_to_srt_time(line.start),
                                                         to |-> float_to_srt_time(line.end),
                                                         text |-> line.text]]>> \o @,
              !.counter = @ + 1]

\* a writer that does not advance its counter
NextCounter_Reused(counter) == counter

\* the counter after one written block
NextCounter(counter) == counter + 1

\* gen.send(line): one block written and flushed, the counter advanced
Send(w, line) ==
    [w EXCEPT !.file = Append(@, [number |-> w.counter, body |-> as_srt_line(line)]),
              !.counter = NextCounter(@)]

\* a close that leaves the generator suspended
Close_LeavesOpen(w) == w

\* a close that fails on a generator that is already closed
Close_RaisesWhenClosed(w) ==
    IF w.closed THEN [w EXCEPT !.raised = "ValueError"] ELSE [w EXCEPT !.closed = TRUE]

\* gen.close(): GeneratorExit at the yield, the with block closes the file; on a
\* generator that has finished, close() does nothing
Close(w) == IF w.closed THEN w ELSE [w EXCEPT !.closed = TRUE]

----------------------------------------------------------------------------
(* translator.py *)

\* ITranslation.translate of the capability to code `to`
Apply(text, to) == [text EXCEPT !.route = Append(@, to)]

\* Translator.__init__
TranslatorInit(pkgs) ==
    LET direct == {p[2] : p \in {q \in pkgs : q[1] = "ru"}}
        transit == {p[2] : p \in {q \in pkgs : q[1] = "en"}}
    IN IF "ru" \in transit
       THEN [raised |-> "none", direct |-> direct, transit |-> transit \ {"ru"}]
       ELSE [raised |-> "KeyError", direct |-> direct, transit |-> transit]

\* Translator.translate; calls lists the capabilities invoked, in order
Translate(tr, string, target) ==
    IF target \in tr.direct
    THEN [raised |-> "none", text |-> Apply(string, target),
          calls |-> <<[map |-> "direct", code |-> target]>>]
    ELSE IF target \in tr.transit
    THEN IF "en" \in tr.direct
         THEN [raised |-> "none", text |-> Apply(Apply(string, "en"), target),
               calls |-> <<[map |-> "direct", code |-> "en"],
                           [map |-> "transit", code |-> target]>>]
         ELSE [raised |-> "KeyError", text |-> string, calls |-> <<>>]
    ELSE [raised |-> "ValueError", text |-> string, calls |-> <<>>]

\* alphabetical order of the language codes, as sorted() orders them
Alphabetical == <<"de", "en", "fr", "ru">>

RECURSIVE SortedKeys(_, _, _)
\* sorted([*direct.keys(), *transit.keys()]) from position i of Alphabetical
SortedKeys(direct, transit, i) ==
    IF i > Len(Alphabetical) THEN <<>>
    ELSE (IF Alphabetical[i] \in direct THEN <<Alphabetical[i]>> ELSE <<>>)
         \o (IF Alphabetical[i] \in transit THEN <<Alphabetical[i]>> ELSE <<>>)
         \o SortedKeys(direct, transit, i + 1)

\* Translator.available_codes
available_codes(tr) == SortedKeys(tr.direct, tr.transit, 1)

----------------------------------------------------------------------------
(* transcoder.py: data *)

\* source_info[0][0] and source_info[1][0] of the probed source
OriginalVideo == [kind |-> "Video", index |-> 0, language |-> "ru", source |-> "source"]
OriginalAudio == [kind |-> "Audio", index |-> 1, language |-> "ru", source |-> "source"]

\* a fragment cut with -t end instead of -t end-start
extract_wav_fragment_WrongLength(start, end) == [start |-> start, end |-> start + end]

\* FFMpeg.extract_wav_fragment
extract_wav_fragment(start, end) == [start |-> start, end |-> end]

\* self._tempDirectory_path / f"{random_string()}.srt", one per writer
TempSrt(id) == [type |-> "Path", parent |-> "tmp", name |-> <<id, "srt">>]

\* a track registered without its language
Subtitles_Unnamed(language, w) ==
    [kind |-> "Subtitle", index |-> 0, language |-> "None", source |-> w.path]

Subtitles(language, w) ==
    [kind |-> "Subtitle", index |-> 0, language |-> language, source |-> w.path]

\* the components exercised on their own are not in use
UnitIdle ==
    /\ sink = None /\ sinkCalls = <<>>
    /\ trOut = None /\ trCodes = None
    /\ targetFile = None /\ ffmpegCalls = <<>> /\ muxOut = None
    /\ parsed = None /\ mainOut = None /\ opOut = None

\* no run has started
RunIdle ==
    /\ pcMain = "new"
    /\ tempDirectory = "none"
    /\ tempDirectory_path = "None"
    /\ russian_texts = <<>>
    /\ translated_texts = <<>>
    /\ sentences_origin = <<>>
    /\ translated_audio = <<>>
    /\ translated_subtitles = <<>>
    /\ pcA = "idle" /\ emitted = 0 /\ lastEnd = 0 /\ recognized = <<>>
    /\ pcB = "idle" /\ translator = TranslatorInit({}) /\ bLine = None /\ bBatch = <<>>
    /\ ru_subs_writer = None
    /\ pcC = "idle" /\ lines = <<>> /\ sentence_origin = None /\ previous_lines = <<>>
    /\ subs_writers = <<>> /\ toRegister = <<>>
    /\ built = <<>>
    /\ putB = <<>> /\ putF = <<>> /\ gotC = <<>>

Init ==
    /\ installed \in InstalledChoices
    /\ audio_codes \in AudioChoices
    /\ subtitle_codes \in SubtitleChoices
    /\ RunIdle
    /\ UnitIdle

\* a component exercised on its own: no run, no requested codes
InitUnit ==
    /\ audio_codes = {} /\ subtitle_codes = {}
    /\ RunIdle
    /\ UnitIdle

----------------------------------------------------------------------------
(* __main__.py: main, and FFMpeg.__init__ / __enter__ / __exit__ *)

\* FFMpeg(ffmpeg_path): the version check passes or raises ValueError
Construct ==
    /\ pcMain = "new"
    /\ \E ok \in BOOLEAN : pcMain' = IF ok THEN "constructed" ELSE "ctor_failed"
    /\ UNCHANGED <<tempDirectory, tempDirectory_path, built>>
    /\ UNCHANGED <<inputVars, unitVars, russian_texts, translated_texts, sentences_origin,
                   translated_audio, translated_subtitles, aVars, bVars, cVars, histVars>>

\* the path reference FFMpeg.__enter__ stores
EnterPath == "tmp"

\* FFMpeg.__enter__
Enter ==
    /\ pcMain = "constructed"
    /\ tempDirectory' = "exists"
    /\ tempDirectory_path' = EnterPath
    /\ pcMain' = "entered"
    /\ UNCHANGED built
    /\ UNCHANGED <<inputVars, unitVars, russian_texts, translated_texts, sentences_origin,
                   translated_audio, translated_subtitles, aVars, bVars, cVars, histVars>>

\* the path reference FFMpeg.__exit__ leaves
ExitPath == "None"

\* __exit__ that skips the cleanup when the body raised
ExitCleanup_OnlyOnSuccess(pc) == IF pc = "run_failed" THEN "exists" ELSE "removed"

\* self._tempDirectory.cleanup(), whatever exc_type is
ExitCleanup(pc) == "removed"

\* FFMpeg.__exit__, reached when the with body returned or raised
Exit ==
    /\ pcMain \in {"ran", "run_failed"}
    /\ tempDirectory' = ExitCleanup(pcMain)
    /\ tempDirectory_path' = ExitPath
    /\ pcMain' = IF pcMain = "ran" THEN "exited" ELSE "exited_error"
    /\ UNCHANGED built
    /\ UNCHANGED <<inputVars, unitVars, russian_texts, translated_texts, sentences_origin,
                   translated_audio, translated_subtitles, aVars, bVars, cVars, histVars>>

----------------------------------------------------------------------------
(* FFMpeg.run, the caller's thread *)

\* run up to stt_thread.start(): probe and transcode the source (either may
\* raise), create the queues and lists, start the three threads
RunStart ==
    /\ pcMain = "entered"
    /\ \E ok \in BOOLEAN :
        IF ok
        THEN /\ pcMain' = "joinA"
             /\ pcA' = "run" /\ pcB' = "init" /\ pcC' = "open"
        ELSE /\ pcMain' = "run_failed"
             /\ UNCHANGED <<pcA, pcB, pcC>>
    /\ UNCHANGED <<tempDirectory, tempDirectory_path, built, emitted, lastEnd, recognized,
                   translator, bLine, bBatch, ru_subs_writer,
                   lines, sentence_origin, previous_lines, subs_writers, toRegister>>
    /\ UNCHANGED <<inputVars, unitVars, russian_texts, translated_texts, sentences_origin,
                   translated_audio, translated_subtitles, histVars>>

\* a join that returns only for a thread that returned normally
ThreadEnded_OnlyReturned(pc) == pc = "done"

\* a join that does not wait for its thread
ThreadEnded_Always(pc) == TRUE

\* Thread.join() returns: the thread returned or died of an exception
ThreadEnded(pc) == pc \in {"done", "dead"}

\* stt_thread.join()
JoinStt ==
    /\ pcMain = "joinA"
    /\ ThreadEnded(pcA)
    /\ pcMain' = "putRu"
    /\ UNCHANGED <<tempDirectory, tempDirectory_path, built>>
    /\ UNCHANGED <<inputVars, unitVars, russian_texts, translated_texts, sentences_origin,
                   translated_audio, translated_subtitles, aVars, bVars, cVars, histVars>>

\* russian_texts.put(None)
PutNoneRussian ==
    /\ pcMain = "putRu"
    /\ russian_texts' = Append(russian_texts, None)
    /\ pcMain' = "putTr"
    /\ UNCHANGED <<tempDirectory, tempDirectory_path, built>>
    /\ UNCHANGED <<inputVars, unitVars, translated_texts, sentences_origin,
                   translated_audio, translated_subtitles, aVars, bVars, cVars, histVars>>

\* translated_texts.put(None)
PutNoneTranslated ==
    /\ pcMain = "putTr"
    /\ translated_texts' = Append(translated_texts, None)
    /\ pcMain' = "joinB"
    /\ UNCHANGED <<tempDirectory, tempDirectory_path, built>>
    /\ UNCHANGED <<inputVars, unitVars, russian_texts, sentences_origin,
                   translated_audio, translated_subtitles, aVars, bVars, cVars, histVars>>

\* text_thread.join(): returns when _texts returned or died of an exception
JoinTexts ==
    /\ pcMain = "joinB"
    /\ ThreadEnded(pcB)
    /\ pcMain' = "joinC"
    /\ UNCHANGED <<tempDirectory, tempDirectory_path, built>>
    /\ UNCHANGED <<inputVars, unitVars, russian_texts, translated_texts, sentences_origin,
                   translated_audio, translated_subtitles, aVars, bVars, cVars, histVars>>

\* translated_text_thread.join()
JoinTranslated ==
    /\ pcMain = "joinC"
    /\ ThreadEnded(pcC)
    /\ pcMain' = "assemble"
    /\ UNCHANGED <<tempDirectory, tempDirectory_path, built>>
    /\ UNCHANGED <<inputVars, unitVars, russian_texts, translated_texts, sentences_origin,
                   translated_audio, translated_subtitles, aVars, bVars, cVars, histVars>>

\* combined_sounds: every element of translated_audio, in list order
CombinedSounds(audio) == audio

\* the MediaContainer run builds
Container(audio, subtitles) ==
    <<OriginalVideo>>
    \o <<[kind |-> "Audio", index |-> 0, language |-> "None", source |-> "custom_path",
          sounds |-> CombinedSounds(audio)]>>
    \o subtitles

\* the rest of run: combine the sounds (reading the generated files may
\* raise), build the container, build_mc
Assemble ==
    /\ pcMain = "assemble"
    /\ \E ok \in BOOLEAN :
        IF ok
        THEN /\ built' = Append(built, Container(translated_audio, translated_subtitles))
             /\ pcMain' = "ran"
        ELSE /\ pcMain' = "run_failed"
             /\ UNCHANGED built
    /\ UNCHANGED <<tempDirectory, tempDirectory_path>>
    /\ UNCHANGED <<inputVars, unitVars, russian_texts, translated_texts, sentences_origin,
                   translated_audio, translated_subtitles, aVars, bVars, cVars, histVars>>

----------------------------------------------------------------------------
(* FFMpeg._stt: Stage A *)

\* one result of the recognizer: russian_texts.put(Line(..., lang='ru'))
SttEmit ==
    /\ pcA = "run"
    /\ emitted < MaxLines
    /\ \E start \in (IF emitted = 0 THEN FirstStarts ELSE {lastEnd + g : g \in Gaps}),
          d \in Durations :
        LET line == Line(start, start + d, [src |-> emitted + 1, route |-> <<>>], "ru") IN
        /\ russian_texts' = Append(russian_texts, Some(line))
        /\ recognized' = Append(recognized, line)
        /\ lastEnd' = start + d
    /\ emitted' = emitted + 1
    /\ UNCHANGED <<pcA, mainVars, inputVars, unitVars, translated_texts, sentences_origin,
                   translated_audio, translated_subtitles, bVars, cVars, histVars>>

\* the recognizer's generator is exhausted: _stt returns
SttReturn ==
    /\ pcA = "run"
    /\ pcA' = "done"
    /\ UNCHANGED <<emitted, lastEnd, recognized, mainVars, inputVars, unitVars, russian_texts,
                   translated_texts,
                   sentences_origin, translated_audio, translated_subtitles,
                   bVars, cVars, histVars>>

----------------------------------------------------------------------------
(* FFMpeg._texts: Stage B *)

all_codes == (audio_codes \cup subtitle_codes) \ {"ru"}

RECURSIVE TranslatedLines_Untranslated(_, _, _)
\* a batch that carries the recognized text under every code
TranslatedLines_Untranslated(tr, line, cs) ==
    IF cs = <<>> THEN <<>>
    ELSE <<Line(line.start, line.end, line.text, Head(cs))>>
         \o TranslatedLines_Untranslated(tr, line, Tail(cs))

RECURSIVE TranslatedLines(_, _, _)
\* the batch built by the loop over all_codes, for the codes cs
TranslatedLines(tr, line, cs) ==
    IF cs = <<>> THEN <<>>
    ELSE <<Line(line.start, line.end, Translate(tr, line.text, Head(cs)).text, Head(cs))>>
         \o TranslatedLines(tr, line, Tail(cs))

\* _texts up to the loop: the Translator and, when asked for, the 'ru' writer
TextsInit ==
    /\ pcB = "init"
    /\ translator' = TranslatorInit(installed)
    /\ IF translator'.raised # "none"
       THEN pcB' = "dead" /\ UNCHANGED ru_subs_writer
       ELSE /\ pcB' = "get"
            /\ ru_subs_writer' =
                 IF "ru" \in subtitle_codes
                 THEN Some(subtitles_write(TempSrt("ru")))
                 ELSE ru_subs_writer
    /\ UNCHANGED <<bLine, bBatch, mainVars, inputVars, unitVars, russian_texts, translated_texts,
                   sentences_origin, translated_audio, translated_subtitles,
                   aVars, cVars, histVars>>

\* the batch put before its fragment
PutOrder_BatchFirst == <<"putBatch", "putFragment">>

\* the two puts that follow the translations of a line, in statement order:
\* sentences_origin.put(fragment), translated_texts.put(translated_lines)
PutOrder == <<"putFragment", "putBatch">>

\* the step of _texts after the put pc
AfterPut(pc) == IF pc = PutOrder[1] THEN PutOrder[2] ELSE "get"

\* russian_texts.get() and, for a line, the 'ru' subtitle and the translations;
\* on None the loop ends
TextsGet ==
    /\ pcB = "get"
    /\ russian_texts # <<>>
    /\ russian_texts' = Tail(russian_texts)
    /\ LET item == Head(russian_texts) IN
       IF item.none
       THEN /\ pcB' = IF "ru" \in subtitle_codes THEN "register" ELSE "done"
            /\ UNCHANGED <<bLine, bBatch, ru_subs_writer>>
       ELSE LET line == item.val
                cs == InOrder(all_codes, 1)
            IN /\ ru_subs_writer' =
                    IF "ru" \in subtitle_codes
                    THEN Some(Send(ru_subs_writer.val, line))
                    ELSE ru_subs_writer
               /\ bLine' = item
               /\ IF \E i \in 1..Len(cs) : Translate(translator, line.text, cs[i]).raised # "none"
                  THEN pcB' = "dead" /\ UNCHANGED bBatch
                  ELSE pcB' = PutOrder[1] /\ bBatch' = TranslatedLines(translator, line, cs)
    /\ UNCHANGED <<translator, mainVars, inputVars, unitVars, translated_texts, sentences_origin,
                   translated_audio, translated_subtitles, aVars, cVars, histVars>>

\* fragment = get_wav(line.start, line.end); sentences_origin.put(fragment)
TextsPutFragment ==
    /\ pcB = "putFragment"
    /\ LET fragment == extract_wav_fragment(bLine.val.start, bLine.val.end) IN
        /\ sentences_origin' = Append(sentences_origin, fragment)
        /\ putF' = Append(putF, fragment)
    /\ pcB' = AfterPut("putFragment")
    /\ UNCHANGED <<translator, bLine, bBatch, ru_subs_writer, mainVars, inputVars, unitVars,
                   russian_texts, translated_texts, translated_audio,
                   translated_subtitles, aVars, cVars, putB, gotC>>

\* translated_texts.put(translated_lines)
TextsPutBatch ==
    /\ pcB = "putBatch"
    /\ translated_texts' = Append(translated_texts, Some(bBatch))
    /\ putB' = Append(putB, bBatch)
    /\ pcB' = AfterPut("putBatch")
    /\ UNCHANGED <<translator, bLine, bBatch, ru_subs_writer, mainVars, inputVars, unitVars,
                   russian_texts, sentences_origin, translated_audio,
                   translated_subtitles, aVars, cVars, putF, gotC>>

\* after the loop: close the 'ru' writer and register its Subtitles
TextsRegister ==
    /\ pcB = "register"
    /\ ru_subs_writer' = Some(Close(ru_subs_writer.val))
    /\ translated_subtitles' = Append(translated_subtitles, Subtitles("ru", ru_subs_writer.val))
    /\ pcB' = "done"
    /\ UNCHANGED <<translator, bLine, bBatch, mainVars, inputVars, unitVars, russian_texts,
                   translated_texts, sentences_origin, translated_audio,
                   aVars, cVars, histVars>>

----------------------------------------------------------------------------
(* FFMpeg._translated_texts: Stage C *)

RECURSIVE SendLines(_, _, _)
\* for line in lines: if line.lang in subtitle_codes: subs_writers[line.lang][1].send(line)
SendLines(writers, ls, subs) ==
    IF ls = <<>> THEN writers
    ELSE SendLines(
            IF Head(ls).lang \in subs
            THEN [writers EXCEPT ![Head(ls).lang] = Send(@, Head(ls))]
            ELSE writers,
            Tail(ls), subs)

\* the two entries in the other order
Segments_SilenceFirst(line, fragment, difference_) ==
    << [kind |-> "silence", language |-> line.lang, line |-> line,
        source_wav_fragment |-> fragment, silence_amount |-> difference_],
       [kind |-> "speech", language |-> line.lang, line |-> line,
        source_wav_fragment |-> fragment, silence_amount |-> difference_] >>

\* the two Audio entries appended for one synthesized line: the spoken line
\* (aud_paths[0]) and its silence (aud_paths[1])
Segments(line, fragment, difference_) ==
    << [kind |-> "speech", language |-> line.lang, line |-> line,
        source_wav_fragment |-> fragment, silence_amount |-> difference_],
       [kind |-> "silence", language |-> line.lang, line |-> line,
        source_wav_fragment |-> fragment, silence_amount |-> difference_] >>

\* a synthesis loop without the one-batch delay
LinesToSynthesize_Current(current, previous) == current

\* the lines that the synthesis loop runs over: for line in previous_lines
LinesToSynthesize(current, previous) == previous

RECURSIVE Synthesized_AnyLanguage(_, _, _, _)
\* a synthesis loop without the audio_codes test
Synthesized_AnyLanguage(ls, fragment, difference_, audio) ==
    IF ls = <<>> THEN <<>>
    ELSE Segments(Head(ls), fragment, difference_)
         \o Synthesized_AnyLanguage(Tail(ls), fragment, difference_, audio)

RECURSIVE Synthesized(_, _, _, _)
\* for line in previous_lines: if line.lang in audio_codes: tts_line(...), two appends
Synthesized(ls, fragment, difference_, audio) ==
    IF ls = <<>> THEN <<>>
    ELSE (IF Head(ls).lang \in audio THEN Segments(Head(ls), fragment, difference_) ELSE <<>>)
         \o Synthesized(Tail(ls), fragment, difference_, audio)

\* a silence measured from the start of the previous batch
difference_FromStart(current, previous) ==
    IF previous # <<>> THEN current[1].start - previous[1].start ELSE 0

\* if previous_lines: difference = lines[0].start - previous_lines[0].end
\* (not read when previous_lines is empty)
difference(current, previous) ==
    IF previous # <<>> THEN current[1].start - previous[1].end ELSE 0

\* _translated_texts up to the loop: one writer per subtitle code other than 'ru'
TranslatedOpen ==
    /\ pcC = "open"
    /\ subs_writers' = [code \in subtitle_codes \ {"ru"} |->
                           subtitles_write(TempSrt(code))]
    /\ toRegister' = InOrder(subtitle_codes \ {"ru"}, 1)
    /\ pcC' = "get"
    /\ UNCHANGED <<lines, sentence_origin, previous_lines, mainVars, inputVars, unitVars,
                   russian_texts, translated_texts, sentences_origin, translated_audio,
                   translated_subtitles, aVars, bVars, histVars>>

\* translated_texts.get(): a batch, or None and the loop ends
TranslatedGet ==
    /\ pcC = "get"
    /\ translated_texts # <<>>
    /\ translated_texts' = Tail(translated_texts)
    /\ LET item == Head(translated_texts) IN
       IF item.none
       THEN /\ pcC' = IF toRegister = <<>> THEN "done" ELSE "register"
            /\ UNCHANGED lines
       ELSE /\ pcC' = "getFragment"
            /\ lines' = item.val
    /\ UNCHANGED <<sentence_origin, previous_lines, subs_writers, toRegister, mainVars,
                   inputVars, unitVars, russian_texts, sentences_origin, translated_audio,
                   translated_subtitles, aVars, bVars, histVars>>

\* sentence_origin = sentences_origin.get()
TranslatedGetFragment ==
    /\ pcC = "getFragment"
    /\ sentences_origin # <<>>
    /\ sentence_origin' = Some(Head(sentences_origin))
    /\ sentences_origin' = Tail(sentences_origin)
    /\ gotC' = Append(gotC, [lines |-> lines, fragment |-> Head(sentences_origin)])
    /\ pcC' = "process"
    /\ UNCHANGED <<lines, previous_lines, subs_writers, toRegister, mainVars, inputVars, unitVars,
                   russian_texts, translated_texts, translated_audio,
                   translated_subtitles, aVars, bVars, putB, putF>>

\* the body of the loop after the two gets
TranslatedProcess ==
    /\ pcC = "process"
    /\ translated_audio' = translated_audio \o
              Synthesized(LinesToSynthesize(lines, previous_lines), sentence_origin.val,
                          difference(lines, previous_lines), audio_codes)
    /\ subs_writers' = SendLines(subs_writers, lines, subtitle_codes)
    /\ previous_lines' = lines
    /\ pcC' = "get"
    /\ UNCHANGED <<lines, sentence_origin, toRegister, mainVars, inputVars, unitVars,
                   russian_texts, translated_texts, sentences_origin,
                   translated_subtitles, aVars, bVars, histVars>>

\* after the loop, one writer at a time: close it and register its Subtitles
TranslatedRegister ==
    /\ pcC = "register"
    /\ LET code == Head(toRegister) IN
        /\ subs_writers' = [subs_writers EXCEPT ![code] = Close(@)]
        /\ translated_subtitles' =
               Append(translated_subtitles, Subtitles(code, subs_writers[code]))
    /\ toRegister' = Tail(toRegister)
    /\ pcC' = IF Tail(toRegister) = <<>> THEN "done" ELSE "register"
    /\ UNCHANGED <<lines, sentence_origin, previous_lines, mainVars, inputVars, unitVars,
                   russian_texts, translated_texts, sentences_origin, translated_audio,
                   aVars, bVars, histVars>>

----------------------------------------------------------------------------

Next ==
    \/ Construct \/ Enter \/ Exit
    \/ RunStart \/ JoinStt \/ PutNoneRussian \/ PutNoneTranslated
    \/ JoinTexts \/ JoinTranslated \/ Assemble
    \/ SttEmit \/ SttReturn
    \/ TextsInit \/ TextsGet \/ TextsPutFragment \/ TextsPutBatch \/ TextsRegister
    \/ TranslatedOpen \/ TranslatedGet \/ TranslatedGetFragment
    \/ TranslatedProcess \/ TranslatedRegister

Spec == Init /\ [][Next]_vars

----------------------------------------------------------------------------
(* Properties *)

Range(seq) == {seq[i] : i \in 1..Len(seq)}

\* run has joined the three threads
Joined == pcMain \in {"assemble", "ran", "exited"}

\* _translated_texts has seen None and left its loop
LoopLeft == pcC \in {"register", "done"}

\* C1: the None on translated_texts comes after the last batch of _texts, so
\* once _translated_texts has seen None it has taken every batch _texts put,
\* and _texts puts no further one.
C1_SentinelAfterLastBatch ==
    LoopLeft => Len(gotC) = Len(putB)

\* C2: the i-th batch _translated_texts takes is the i-th batch _texts put and
\* is processed with the i-th fragment _texts put, which is the fragment cut
\* for [line.start, line.end] of that batch's recognized line.
C2_BatchPairedWithFragment ==
    /\ Len(gotC) <= Len(putB) /\ Len(gotC) <= Len(putF)
    /\ \A i \in 1..Len(gotC) :
        /\ gotC[i].lines = putB[i]
        /\ gotC[i].fragment = putF[i]
        /\ \A k \in 1..Len(gotC[i].lines) :
            /\ gotC[i].fragment.start = gotC[i].lines[k].start
            /\ gotC[i].fragment.end = gotC[i].lines[k].end
    /\ pcC = "process" =>
        /\ lines = gotC[Len(gotC)].lines
        /\ sentence_origin.val = gotC[Len(gotC)].fragment

\* C2 witness: two non-empty batches taken while a third one is still queued
C2_Witness ==
    /\ Len(gotC) = 2 /\ gotC[2].lines # <<>>
    /\ pcC = "process"
    /\ translated_texts # <<>>

\* C3: when run has joined the stages of a run in which no stage died, the
\* writer of every requested subtitle code other than 'ru' holds exactly one
\* entry per recognized line, numbered 1..n.
C3_SubtitleEntryPerLine ==
    (Joined /\ pcB = "done" /\ pcC = "done") =>
        \A code \in subtitle_codes \ {"ru"} :
            /\ Len(subs_writers[code].file) = emitted
            /\ \A i \in 1..Len(subs_writers[code].file) :
                subs_writers[code].file[i].number = i

\* C4: when run has joined the stages of a run with n >= 1 recognized lines,
\* one requested audio code and no dead stage, translated_audio holds
\* 2*(n-1) segments.
C4_AllButLastSynthesized ==
    (Joined /\ pcB = "done" /\ pcC = "done" /\ emitted >= 1
        /\ Cardinality(audio_codes \ {"ru"}) = 1) =>
        Len(translated_audio) = 2 * (emitted - 1)

\* C5: once _translated_texts has left its loop, no segment of
\* translated_audio was synthesized from a line of the last batch it took.
C5_LastBatchNeverSynthesized ==
    (LoopLeft /\ gotC # <<>>) =>
        \A i \in 1..Len(translated_audio) :
            translated_audio[i].line \notin Range(gotC[Len(gotC)].lines)

\* C5 witness: the loop was left after three batches of an audio language,
\* with segments synthesized from the earlier ones
C5_Witness ==
    /\ pcC = "done"
    /\ Len(gotC) = 3
    /\ Len(translated_audio) = 4
    /\ gotC[3].lines # <<>> /\ gotC[3].lines[1].lang \in audio_codes

\* the segments of one language, in list order
SegmentsOf(language) ==
    LET Is(s) == s.language = language IN SelectSeq(translated_audio, Is)

IsSynthesizedTrack(track) == track.kind = "Audio" /\ track.source = "custom_path"

\* C6: the container handed to build_mc holds the original video track, the
\* original audio track, a synthesized track for every requested audio
\* language and every registered subtitle track.
C6_ContainerComplete ==
    \A c \in Range(built) :
        /\ OriginalVideo \in Range(c)
        /\ OriginalAudio \in Range(c)
        /\ \A language \in audio_codes : \E track \in Range(c) :
              IsSynthesizedTrack(track) /\ track.sounds = SegmentsOf(language)
        /\ \A subtitle \in Range(translated_subtitles) : subtitle \in Range(c)

\* C7: for every requested audio language the container holds a track made of
\* exactly that language's segments in the order they were produced, and no
\* synthesized track holds segments of two languages.
C7_TrackPerLanguage ==
    \A c \in Range(built) :
        /\ \A language \in audio_codes : \E track \in Range(c) :
              IsSynthesizedTrack(track) /\ track.sounds = SegmentsOf(language)
        /\ \A track \in Range(c) : IsSynthesizedTrack(track) =>
              \A a, b \in Range(track.sounds) : a.language = b.language

\* C8: a failure of a stage is terminal to the run. Stated for the failure of
\* _texts in translator.translate (the Translator itself was built): once the
\* thread has died of it, the run neither returns normally nor hands a
\* container to build_mc.
C8_FailureIsTerminal ==
    (pcB = "dead" /\ translator.raised = "none") =>
        /\ built = <<>>
        /\ pcMain \notin {"ran", "exited"}

\* C9: the scratch directory does not exist before __enter__, exists with its
\* path held from __enter__ to __exit__, and after __exit__, reached by return
\* or by an exception in the with body, it is removed and the path reference
\* is cleared.
C9_WorkspaceScoped ==
    /\ pcMain \in {"new", "constructed", "ctor_failed"} =>
          tempDirectory = "none" /\ tempDirectory_path = "None"
    /\ pcMain \in {"entered", "joinA", "putRu", "putTr", "joinB", "joinC",
                   "assemble", "ran", "run_failed"} =>
          tempDirectory = "exists" /\ tempDirectory_path = "tmp"
    /\ pcMain \in {"exited", "exited_error"} =>
          tempDirectory = "removed" /\ tempDirectory_path = "None"

\* C9 witness: __exit__ has run after the with body raised
C9_Witness == pcMain = "exited_error" /\ tempDirectory = "removed"

\* every subtitle writer of the run
Writers ==
    (IF ru_subs_writer.none THEN {} ELSE {ru_subs_writer.val})
    \cup {subs_writers[code] : code \in DOMAIN subs_writers}

\* C10: the blocks in a writer's file are numbered 1, 2, ..., k in that order
\* and the counter is k + 1: it starts at 1 and advances by one per send.
C10_SequenceNumbersContiguous ==
    \A w \in Writers :
        /\ w.counter = Len(w.file) + 1
        /\ \A i \in 1..Len(w.file) : w.file[i].number = i

\* C10 witness: a writer that has been sent three lines
C10_Witness == \E w \in Writers : Len(w.file) = 3

----------------------------------------------------------------------------
(* subtitles_write on its own: one generator, opened on any path, sent lines
   and closed by its owner *)

MaxSends == 2
MaxCloses == 2

\* paths given to subtitles_write: str and Path, with and without the suffix
PathChoices ==
    { [type |-> t, parent |-> "dir", name |-> n] :
        t \in {"str", "Path"},
        n \in {<<"sub", "srt">>, <<"sub">>, <<"sub", "txt">>, <<"a", "b", "srt">>,
               <<"a", "b", "txt">>} }

\* times in milliseconds: below and at one second, one minute, one hour and
\* one hundred hours
TimeChoices == {0, 1500, 59999, 3723004, 359999999, 360000000}

\* gen = subtitles_write(path); next(gen)
SinkOpen ==
    /\ sink = None
    /\ \E path \in PathChoices :
        /\ sink' = Some(subtitles_write(path))
        /\ sinkCalls' = <<[op |-> "open", path |-> path]>>
    /\ UNCHANGED <<runVars, inputVars, translator, trVars, muxVars, callVars>>

\* gen.send(Line(...)) on the suspended generator
SinkSend ==
    /\ ~sink.none /\ ~sink.val.closed
    /\ Len(sink.val.file) < MaxSends
    /\ \E start \in TimeChoices, end \in TimeChoices :
        /\ start <= end
        /\ LET line == Line(start, end, [src |-> sink.val.counter, route |-> <<>>], "ru") IN
            /\ sink' = Some(Send(sink.val, line))
            /\ sinkCalls' = Append(sinkCalls, [op |-> "send", line |-> line])
    /\ UNCHANGED <<runVars, inputVars, translator, trVars, muxVars, callVars>>

\* gen.close()
SinkClose ==
    /\ ~sink.none
    /\ Len(SelectSeq(sinkCalls, LAMBDA c : c.op = "close")) < MaxCloses
    /\ sink' = Some(Close(sink.val))
    /\ sinkCalls' = Append(sinkCalls, [op |-> "close"])
    /\ UNCHANGED <<runVars, inputVars, translator, trVars, muxVars, callVars>>

NextSink == SinkOpen \/ SinkSend \/ SinkClose

InitSink == installed = {} /\ InitUnit

SpecSink == InitSink /\ [][NextSink]_vars

----------------------------------------------------------------------------
(* Properties of subtitles_write, under SpecSink *)

\* the path given to the generator
GivenPath == sinkCalls[1].path

\* the lines sent to the generator, in order
SentLines ==
    LET sends == SelectSeq(sinkCalls, LAMBDA c : c.op = "send")
    IN [i \in 1..Len(sends) |-> sends[i].line]

ClosesMade == Len(SelectSeq(sinkCalls, LAMBDA c : c.op = "close"))

\* C11: the file subtitles_write creates ends in .srt whatever path it was
\* given, and a path that already ends in .srt is used as given.
C11_SuffixNormalized ==
    ~sink.none =>
        /\ EndsWithSrt(sink.val.path.name)
        /\ EndsWithSrt(GivenPath.name) =>
              /\ sink.val.path.name = GivenPath.name
              /\ sink.val.path.parent = GivenPath.parent

\* C12: close() on a generator that is already closed raises nothing and
\* leaves the file and the generator as the first close left them.
C12_CloseIdempotent ==
    [][ /\ (~sink.none /\ sink.val.closed) => sink' = sink
        /\ ~sink'.none => sink'.val.raised = "none" ]_vars

\* C12 witness: close() called twice after a send, nothing raised
C12_Witness ==
    /\ ~sink.none /\ sink.val.closed /\ sink.val.raised = "none"
    /\ ClosesMade = 2
    /\ Len(sink.val.file) >= 1

DigitValue(c) == CHOOSE d \in 0..9 : Digit(d) = c

RECURSIVE NumberOf(_)
\* the number a sequence of digit characters writes
NumberOf(cs) ==
    IF cs = <<>> THEN 0
    ELSE 10 * NumberOf(SubSeq(cs, 1, Len(cs) - 1)) + DigitValue(cs[Len(cs)])

\* the time strings written to the file with the values they were made from
WrittenTimes ==
    IF sink.none THEN {}
    ELSE UNION { { <<SentLines[i].start, sink.val.file[i].body.from>>,
                   <<SentLines[i].end, sink.val.file[i].body.to>> } :
                 i \in 1..Len(sink.val.file) }

\* str is v as H..H:MM:SS,mmm: minutes and seconds of two digits, milliseconds
\* of three, the hours in the characters before them
WellFormedTime(v, str) ==
    LET n == Len(str) IN
    /\ n >= 12
    /\ str[n - 3] = "," /\ str[n - 6] = ":" /\ str[n - 9] = ":"
    /\ NumberOf(SubSeq(str, n - 2, n)) = v % 1000
    /\ NumberOf(SubSeq(str, n - 5, n - 4)) = (v \div 1000) % 60
    /\ NumberOf(SubSeq(str, n - 8, n - 7)) = (v \div 60000) % 60
    /\ NumberOf(SubSeq(str, 1, n - 10)) = v \div 3600000

\* C13 as stated: every time is written as HH:MM:SS,mmm of fixed width, twelve
\* characters, with the milliseconds of v, for every v >= 0.
C13_FixedWidth ==
    \A t \in WrittenTimes : WellFormedTime(t[1], t[2]) /\ Len(t[2]) = 12

\* C13 amended: every time is written as H..H:MM:SS,mmm with the milliseconds
\* of v and the hours zero-padded to at least two digits: twelve characters
\* for v below 100 hours, more for v of 100 hours or more.
C13_WidthBelowHundredHours ==
    \A t \in WrittenTimes :
        /\ WellFormedTime(t[1], t[2])
        /\ (t[1] < 360000000) <=> (Len(t[2]) = 12)

\* C13 witness: a time of 100 hours written with three hour digits, next to a
\* time below 100 hours
C13_Witness ==
    /\ <<360000000, <<"1", "0", "0", ":", "0", "0", ":", "0", "0", ",", "0", "0", "0">>>>
          \in WrittenTimes
    /\ <<3723004, <<"0", "1", ":", "0", "2", ":", "0", "3", ",", "0", "0", "4">>>>
          \in WrittenTimes

----------------------------------------------------------------------------
(* Translator on its own: built from any set of installed packages, then
   asked to translate and to list its codes *)

\* the packages get_installed_packages may return
Packages ==
    {<<"ru", "en">>, <<"ru", "fr">>, <<"ru", "de">>, <<"en", "ru">>, <<"en", "fr">>,
     <<"en", "de">>, <<"fr", "en">>}

\* the target codes translate is asked for
TargetChoices == {"en", "fr", "de", "ru", "es"}

\* Translator()
TrConstruct ==
    /\ trOut = None
    /\ translator' = TranslatorInit(installed)
    /\ trOut' = Some([op |-> "init"])
    /\ UNCHANGED <<runVars, installed, trCodes, sinkVars, muxVars, callVars>>

\* translator.translate(string, target) on a constructed Translator
TrTranslate ==
    /\ ~trOut.none /\ translator.raised = "none"
    /\ \E target_ \in TargetChoices :
        trOut' = Some([op |-> "translate", target |-> target_,
                       string |-> [src |-> 1, route |-> <<>>],
                       result |-> Translate(translator, [src |-> 1, route |-> <<>>], target_)])
    /\ UNCHANGED <<runVars, installed, translator, trCodes, sinkVars, muxVars, callVars>>

\* translator.available_codes() on a constructed Translator
TrAvailableCodes ==
    /\ ~trOut.none /\ translator.raised = "none"
    /\ trCodes' = Some(available_codes(translator))
    /\ UNCHANGED <<runVars, installed, translator, trOut, sinkVars, muxVars, callVars>>

NextTranslator == TrConstruct \/ TrTranslate \/ TrAvailableCodes

InitTranslator == installed \in SUBSET Packages /\ InitUnit

SpecTranslator == InitTranslator /\ [][NextTranslator]_vars

\* a translate call has returned or raised
Translated == ~trOut.none /\ trOut.val.op = "translate"

\* C14: translate takes one route. A target of the direct map gets that one
\* direct capability and no transit capability; any other target of the
\* transit map gets the direct English capability once and then the target's
\* transit capability once, on the intermediate result.
C14_OneRoute ==
    Translated =>
        LET r == trOut.val.result
            t == trOut.val.target
        IN /\ t \in translator.direct =>
                /\ r.raised = "none"
                /\ r.calls = <<[map |-> "direct", code |-> t]>>
                /\ r.text = Apply(trOut.val.string, t)
           /\ (t \notin translator.direct /\ t \in translator.transit) =>
                /\ r.raised = "none"
                /\ r.calls = <<[map |-> "direct", code |-> "en"],
                               [map |-> "transit", code |-> t]>>
                /\ r.text = Apply(Apply(trOut.val.string, "en"), t)

\* C15: translate to a target of neither map fails with the error of the
\* module, NoSuchLanguage, and invokes no capability.
C15_UnsupportedLanguage ==
    (Translated /\ trOut.val.target \notin translator.direct \cup translator.transit) =>
        /\ trOut.val.result.raised = "NoSuchLanguage"
        /\ trOut.val.result.calls = <<>>

\* C16: available_codes returns the codes of both maps in ascending order,
\* each code once.
C16_SortedUnion ==
    ~trCodes.none =>
        LET codes == trCodes.val IN
        /\ {codes[i] : i \in 1..Len(codes)} = translator.direct \cup translator.transit
        /\ Len(codes) = Cardinality(translator.direct \cup translator.transit)
        /\ \A i, j \in 1..Len(codes) : i < j =>
              \E a, b \in 1..Len(Alphabetical) :
                  a < b /\ Alphabetical[a] = codes[i] /\ Alphabetical[b] = codes[j]

\* C17: for every set of installed packages the constructor succeeds, the
\* direct map holds the targets of the ru->X packages and the transit map the
\* targets of the en->X packages except en->en.
C17_MapsFromInstalled ==
    ~trOut.none =>
        /\ translator.raised = "none"
        /\ translator.direct = {p[2] : p \in {q \in installed : q[1] = "ru"}}
        /\ translator.transit = {p[2] : p \in {q \in installed : q[1] = "en"}} \ {"en"}

----------------------------------------------------------------------------
(* FFMpeg.build_mc on its own: one container muxed to a target that may exist *)

MaxTracks == 3

\* the tracks a container is made of: three source files, stream indexes per file
TrackChoices ==
    { [kind |-> "Video", index |-> 0, language |-> "ru", source |-> "a"],
      [kind |-> "Audio", index |-> 1, language |-> "ru", source |-> "a"],
      [kind |-> "Subtitle", index |-> 2, language |-> "ru", source |-> "a"],
      [kind |-> "Audio", index |-> 0, language |-> "en", source |-> "b"],
      [kind |-> "Subtitle", index |-> 0, language |-> "en", source |-> "c"] }

\* MediaContainer.objects of up to MaxTracks tracks
ContainerChoices == UNION { [1..n -> TrackChoices] : n \in 1..MaxTracks }

\* list.index that never finds the value
IndexOf_NotFound(seq, x) == -1

\* inputs_l.index(object.source), 0-based; -1 stands for ValueError
IndexOf(seq, x) ==
    IF \E i \in 1..Len(seq) : seq[i] = x
    THEN (CHOOSE i \in 1..Len(seq) : seq[i] = x /\ \A j \in 1..(i - 1) : seq[j] # x) - 1
    ELSE -1

\* a loop that skips no track
Skipped_Never(object, no_subtitles) == FALSE

\* isinstance(object, Subtitles) and no_subtitles
Skipped(object, no_subtitles) == object.kind = "Subtitle" /\ no_subtitles

RECURSIVE BuildLoop(_, _, _, _)
\* the loop of build_mc over mc.objects: the inputs and the maps it collects
BuildLoop(objects, inputs_l, maps, no_subtitles) ==
    IF objects = <<>> THEN [inputs_l |-> inputs_l, maps |-> maps]
    ELSE LET object == Head(objects) IN
         IF Skipped(object, no_subtitles)
         THEN BuildLoop(Tail(objects), inputs_l, maps, no_subtitles)
         ELSE LET found == IndexOf(inputs_l, object.source)
                  inputs2 == IF found = -1 THEN Append(inputs_l, object.source)
                                           ELSE inputs_l
                  input_index == IF found = -1 THEN Len(inputs2) - 1 ELSE found
              IN BuildLoop(Tail(objects), inputs2,
                           Append(maps, [input_index |-> input_index,
                                         index |-> object.index]),
                           no_subtitles)

\* a build_mc that never refuses
Refuses_Never(exists, overwrite_ok) == FALSE

\* path.exists() and not overwrite_ok: raise ValueError('Trying to overwrite file')
Refuses(exists, overwrite_ok) == exists /\ ~overwrite_ok

\* the parameters handed to _call_ffmpeg: the -i inputs, the -map list as
\* passed (the line *maps is commented out), the options and the output
Invocation(inputs_l, maps, name) ==
    [inputs |-> inputs_l, maps |-> <<>>, options |-> <<"-c copy", "-shortest">>,
     output |-> name]

\* build_mc(path, mc, overwrite_ok) on the target path
BuildMc ==
    /\ ~targetFile.none
    /\ ffmpegCalls = <<>>
    /\ \E mc \in ContainerChoices, overwrite_ok \in BOOLEAN :
        LET file == targetFile.val
            loop == BuildLoop(mc, <<>>, <<>>, file.name[Len(file.name)] = "mp4")
        IN IF Refuses(file.exists, overwrite_ok)
           THEN /\ muxOut' = Some([mc |-> mc, overwrite_ok |-> overwrite_ok,
                                   before |-> file, raised |-> "ValueError",
                                   inputs_l |-> <<>>, maps |-> <<>>])
                /\ UNCHANGED <<targetFile, ffmpegCalls>>
           ELSE /\ muxOut' = Some([mc |-> mc, overwrite_ok |-> overwrite_ok,
                                   before |-> file, raised |-> "none",
                                   inputs_l |-> loop.inputs_l, maps |-> loop.maps])
                /\ ffmpegCalls' = Append(ffmpegCalls,
                                         Invocation(loop.inputs_l, loop.maps, file.name))
                /\ targetFile' = Some([file EXCEPT !.exists = TRUE, !.content = "muxed"])
    /\ UNCHANGED <<runVars, inputVars, translator, sinkVars, trVars, callVars>>

NextMux == BuildMc

InitMux ==
    /\ installed = {}
    /\ audio_codes = {} /\ subtitle_codes = {}
    /\ RunIdle
    /\ sink = None /\ sinkCalls = <<>>
    /\ trOut = None /\ trCodes = None
    /\ \E ext \in {"mp4", "mkv"}, exists \in BOOLEAN :
        targetFile = Some([name |-> <<"out", ext>>, exists |-> exists,
                           content |-> IF exists THEN "old" ELSE "none"])
    /\ ffmpegCalls = <<>>
    /\ muxOut = None
    /\ parsed = None /\ mainOut = None /\ opOut = None

SpecMux == InitMux /\ [][NextMux]_vars

\* the tracks of the container that build_mc does not skip for the target
Included(o) ==
    SelectSeq(o.mc, LAMBDA t : ~(t.kind = "Subtitle"
                                 /\ o.before.name[Len(o.before.name)] = "mp4"))

\* position (1-based) of the first track of seq whose source is src
FirstWith(seq, src) ==
    CHOOSE i \in 1..Len(seq) :
        seq[i].source = src /\ \A j \in 1..(i - 1) : seq[j].source # src

\* C18: build_mc refuses to overwrite: when the target exists and overwrite_ok
\* is not set the call raises, the target is left as it was and no ffmpeg
\* invocation is made; otherwise the call goes on to its one mux invocation
\* on the target path.
C18_RefusesOverwrite ==
    ~muxOut.none =>
        LET o == muxOut.val IN
        IF o.before.exists /\ ~o.overwrite_ok
        THEN o.raised = "ValueError" /\ targetFile = Some(o.before)
             /\ ffmpegCalls = <<>>
        ELSE o.raised = "none" /\ Len(ffmpegCalls) = 1
             /\ ffmpegCalls[1].output = o.before.name

\* a call on an existing target without overwrite_ok has been refused
C18_Witness ==
    /\ ~muxOut.none
    /\ muxOut.val.before.exists /\ ~muxOut.val.overwrite_ok
    /\ muxOut.val.raised = "ValueError"

\* C19: the mux invocation lists one input per distinct source among the
\* included tracks: equal sources share one input, the inputs are in order of
\* first occurrence in the container, and the input index computed for a
\* track is the (0-based) position of its source in that list.
C19_InputPerSource ==
    (~muxOut.none /\ muxOut.val.raised = "none") =>
        LET o == muxOut.val
            inc == Included(o)
            inputs == ffmpegCalls[1].inputs
        IN /\ inputs = o.inputs_l
           /\ \A i, j \in 1..Len(inputs) : inputs[i] = inputs[j] => i = j
           /\ Range(inputs) = { inc[k].source : k \in 1..Len(inc) }
           /\ \A i, j \in 1..Len(inputs) :
                i < j => FirstWith(inc, inputs[i]) < FirstWith(inc, inputs[j])
           /\ Len(o.maps) = Len(inc)
           /\ \A k \in 1..Len(inc) :
                /\ o.maps[k].input_index \in 0..(Len(inputs) - 1)
                /\ inputs[o.maps[k].input_index + 1] = inc[k].source

\* a container whose first and last track share a source, with a track of
\* another source between them, has been muxed
C19_Witness ==
    /\ ~muxOut.none /\ muxOut.val.raised = "none"
    /\ Len(Included(muxOut.val)) = 3
    /\ Included(muxOut.val)[1].source = Included(muxOut.val)[3].source
    /\ Included(muxOut.val)[1].source # Included(muxOut.val)[2].source
    /\ Len(ffmpegCalls[1].inputs) = 2

\* C20: the ffmpeg invocation issued by build_mc carries one explicit stream
\* map per included track, in container order, each pointing at that track's
\* input index and stream index.
C20_MapPerTrack ==
    (~muxOut.none /\ muxOut.val.raised = "none") =>
        LET o == muxOut.val
            inc == Included(o)
            passed == ffmpegCalls[1].maps
        IN /\ Len(passed) = Len(inc)
           /\ \A k \in 1..Len(inc) :
                /\ passed[k].index = inc[k].index
                /\ ffmpegCalls[1].inputs[passed[k].input_index + 1] = inc[k].source

\* C21: in the stream map build_mc computes, a .mp4 target gets no entry for
\* any Subtitle track and a .mkv target gets one for every track; Video and
\* Audio tracks have their entry for both targets, in container order, and
\* the call does not fail.
C21_SubtitlesDroppedForMp4 ==
    (~muxOut.none /\ ~Refuses(muxOut.val.before.exists, muxOut.val.overwrite_ok)) =>
        LET o == muxOut.val
            mp4 == o.before.name[Len(o.before.name)] = "mp4"
            kept == SelectSeq(o.mc, LAMBDA t : t.kind \in {"Video", "Audio"} \/ ~mp4)
        IN /\ o.raised = "none"
           /\ Len(o.maps) = Len(kept)
           /\ \A k \in 1..Len(kept) :
                /\ o.maps[k].index = kept[k].index
                /\ o.inputs_l[o.maps[k].input_index + 1] = kept[k].source

\* a container of one Video, one Audio and one Subtitle track has been muxed
\* to a .mp4 target, and two entries were computed
C21_Witness ==
    /\ ~muxOut.none /\ muxOut.val.raised = "none"
    /\ muxOut.val.before.name = <<"out", "mp4">>
    /\ Len(muxOut.val.mc) = 3
    /\ muxOut.val.mc[1].kind = "Video" /\ muxOut.val.mc[2].kind = "Audio"
    /\ muxOut.val.mc[3].kind = "Subtitle"
    /\ Len(muxOut.val.maps) = 2

----------------------------------------------------------------------------
(* info_parse on its own: the stream report of one file *)

MaxStreams == 3

\* the stream lines of a report, by what the patterns of info_parse can find
\* in them: the kind keyword and, in the trailer, <w>x<h>, <f> fps, <n> Hz and
\* <n> kb/s
StreamChoices ==
    { [kind |-> "Video", resolution |-> TRUE, fps |-> TRUE, frequency |-> FALSE, bitrate |-> TRUE],
      [kind |-> "Video", resolution |-> FALSE, fps |-> TRUE, frequency |-> FALSE, bitrate |-> TRUE],
      [kind |-> "Video", resolution |-> TRUE, fps |-> FALSE, frequency |-> FALSE, bitrate |-> FALSE],
      [kind |-> "Audio", resolution |-> FALSE, fps |-> FALSE, frequency |-> TRUE, bitrate |-> TRUE],
      [kind |-> "Audio", resolution |-> FALSE, fps |-> FALSE, frequency |-> FALSE, bitrate |-> FALSE],
      [kind |-> "Subtitle", resolution |-> FALSE, fps |-> FALSE, frequency |-> FALSE, bitrate |-> FALSE],
      [kind |-> "Data", resolution |-> FALSE, fps |-> FALSE, frequency |-> FALSE, bitrate |-> FALSE],
      [kind |-> "Attachment", resolution |-> FALSE, fps |-> FALSE, frequency |-> FALSE, bitrate |-> TRUE] }

\* reports of up to MaxStreams stream lines; the line at position i is
\* "Stream #0:<i-1>"
ReportChoices ==
    UNION { { [i \in 1..n |-> [index |-> i - 1, stream |-> f[i]]] : f \in [1..n -> StreamChoices] }
            : n \in 0..MaxStreams }

\* the lines findall(pattern, info) returns: the pattern requires one of the
\* three kind keywords
Matches(line) == line.stream.kind \in {"Video", "Audio", "Subtitle"}

\* the entry appended for one line
Track(line, source) ==
    [kind |-> line.stream.kind, index |-> line.index, source |-> source,
     bitrate |-> IF line.stream.bitrate THEN "kb/s" ELSE "None"]

RECURSIVE ParseLines(_, _, _)
\* the loop of info_parse over the matched lines
ParseLines(found, source, output) ==
    IF found = <<>> THEN output
    ELSE LET line == Head(found)
             kind == line.stream.kind
         IN IF kind = "Video"
            THEN IF ~line.stream.resolution \/ ~line.stream.fps
                 THEN [output EXCEPT !.raised = "StopIteration"]
                 ELSE ParseLines(Tail(found), source,
                                 [output EXCEPT !.videos = Append(@, Track(line, source))])
            ELSE IF kind = "Audio"
            THEN IF ~line.stream.frequency
                 THEN [output EXCEPT !.raised = "StopIteration"]
                 ELSE ParseLines(Tail(found), source,
                                 [output EXCEPT !.audios = Append(@, Track(line, source))])
            ELSE IF kind = "Subtitle"
            THEN ParseLines(Tail(found), source,
                            [output EXCEPT !.subtitles = Append(@, Track(line, source))])
            ELSE [output EXCEPT !.raised = "RuntimeError"]

\* info_parse(info, source)
info_parse(info, source) ==
    ParseLines(SelectSeq(info, Matches), source,
               [raised |-> "none", videos |-> <<>>, audios |-> <<>>, subtitles |-> <<>>])

\* info_parse called on a report
InfoParse ==
    /\ parsed = None
    /\ \E info \in ReportChoices :
        parsed' = Some([info |-> info, result |-> info_parse(info, "source")])
    /\ UNCHANGED <<runVars, inputVars, translator, sinkVars, trVars, muxVars, mainOut, opOut>>

NextProbe == InfoParse

InitProbe == installed = {} /\ InitUnit

SpecProbe == InitProbe /\ [][NextProbe]_vars

\* C22: info_parse fails when a stream line of the report names a kind other
\* than Video, Audio or Subtitle: no result is returned for such a report.
C22_UnknownKindFails ==
    (~parsed.none /\ \E i \in 1..Len(parsed.val.info) :
         parsed.val.info[i].stream.kind \notin {"Video", "Audio", "Subtitle"}) =>
        parsed.val.result.raised # "none"

----------------------------------------------------------------------------
(* __main__.py: the command line *)

\* get_available_languages_stt() and get_available_languages_tts()
codes_stt == {"ru"}
codes_tts == {"en"}

\* the command lines: --subtitles, --audio (at least one code), --available,
\* and what the machine holds: the input file, the platform, a usable ffmpeg
ArgChoices ==
    [subtitles : SUBSET {"ru", "en", "xx"},
     audio : (SUBSET {"en", "xx"}) \ {{}},
     available : BOOLEAN,
     source_exists : BOOLEAN,
     os_name : {"posix", "nt"},
     ffmpeg_exists : BOOLEAN]

\* main(): the value it returns, or the exception that leaves it; run_ok is
\* whether ffmpeg.run returns
main(args, pkgs, run_ok) ==
    LET tr == TranslatorInit(pkgs)
        available_subtitles == codes_stt \cup Range(available_codes(tr))
        not_available_subtitles == args.subtitles \ available_subtitles
        not_available_audio == args.audio \ codes_tts
    IN IF tr.raised # "none" THEN [raised |-> tr.raised, returned |-> -1]
       ELSE IF not_available_subtitles # {} THEN [raised |-> "none", returned |-> 1]
       ELSE IF not_available_subtitles # {} THEN [raised |-> "none", returned |-> 2]
       ELSE IF args.available THEN [raised |-> "none", returned |-> 3]
       ELSE IF ~args.source_exists THEN [raised |-> "none", returned |-> 4]
       ELSE IF args.os_name # "posix" /\ ~args.ffmpeg_exists
       THEN [raised |-> "none", returned |-> 5]
       ELSE IF ~args.ffmpeg_exists THEN [raised |-> "ValueError", returned |-> -1]
       ELSE IF ~run_ok THEN [raised |-> "Exception", returned |-> -1]
       ELSE [raised |-> "none", returned |-> 0]

\* the exit status of the interpreter after `if __name__ == '__main__': main()`:
\* the returned value is dropped; an exception that leaves main gives 1
ExitStatus(out) == IF out.raised # "none" THEN 1 ELSE 0

\* python -m src ...: one run of the command line
MainRun ==
    /\ mainOut = None
    /\ \E args \in ArgChoices, run_ok \in BOOLEAN :
        LET out == main(args, installed, run_ok) IN
        mainOut' = Some([args |-> args, run_ok |-> run_ok, raised |-> out.raised,
                         returned |-> out.returned, status |-> ExitStatus(out)])
    /\ UNCHANGED <<runVars, inputVars, translator, sinkVars, trVars, muxVars, parsed, opOut>>

NextCli == MainRun

InitCli == installed \in InstalledChoices /\ InitUnit

SpecCli == InitCli /\ [][NextCli]_vars

\* the exit code the conditions of a command line call for
ExpectedStatus(args, pkgs) ==
    LET supported == codes_stt \cup Range(available_codes(TranslatorInit(pkgs))) IN
    IF args.subtitles \ supported # {} THEN 1
    ELSE IF args.audio \ codes_tts # {} THEN 2
    ELSE IF args.available THEN 3
    ELSE IF ~args.source_exists THEN 4
    ELSE IF ~args.ffmpeg_exists THEN 5
    ELSE 0

\* C23: the command line exits with 1 for an unsupported subtitle code, 2 for
\* an unsupported audio code (all subtitle codes supported), 3 when the
\* availability listing is printed, 4 when the source file is missing, 5 when
\* the ffmpeg binary is missing and 0 on success. Stated for the runs in
\* which the Translator is built and, when the pipeline is reached, it returns.
C23_ExitCodes ==
    (~mainOut.none /\ TranslatorInit(installed).raised = "none"
        /\ mainOut.val.raised # "Exception") =>
        mainOut.val.status = ExpectedStatus(mainOut.val.args, installed)

----------------------------------------------------------------------------
(* The file operations of FFMpeg, each called once on paths that may be
   missing, a directory or a file; calls lists the _call_ffmpeg invocations
   the operation made, in order *)

PathKinds == {"missing", "dir", "file"}

\* if not path.exists(): raise ValueError(...); if not path.is_file(): raise ValueError(...)
PathCheck(kind) == IF kind = "file" THEN "none" ELSE "ValueError"

\* FFMpeg.get_info(path, skip_validators)
get_info(kind, skip_validators) ==
    LET first == IF skip_validators THEN <<"probe">> ELSE <<>> IN
    IF PathCheck(kind) # "none" THEN [raised |-> PathCheck(kind), calls |-> first]
    ELSE [raised |-> "none", calls |-> Append(first, "probe")]

\* FFMpeg.extract_audio(video_source), of a file with an aac audio stream
extract_audio(kind, suffix) ==
    IF PathCheck(kind) # "none" THEN [raised |-> PathCheck(kind), calls |-> <<>>]
    ELSE IF suffix \notin {"mkv", "mp4"} THEN [raised |-> "TypeError", calls |-> <<>>]
    ELSE [raised |-> "none",
          calls |-> get_info(kind, FALSE).calls \o <<"extract">> \o get_info("file", FALSE).calls]

\* FFMpeg.aac_to_wav(audio_source)
aac_to_wav(kind) ==
    IF PathCheck(kind) # "none" THEN [raised |-> PathCheck(kind), calls |-> <<>>]
    ELSE [raised |-> "none", calls |-> <<"transcode">>]

\* FFMpeg.wav_to_aac(audio_source)
wav_to_aac(kind) ==
    IF PathCheck(kind) # "none" THEN [raised |-> PathCheck(kind), calls |-> <<>>]
    ELSE [raised |-> "none", calls |-> <<"transcode">> \o get_info("file", FALSE).calls]

\* FFMpeg.replace_audio_line(video_source, audio_source)
replace_audio_line(video_kind, audio_kind) ==
    IF PathCheck(video_kind) # "none" THEN [raised |-> PathCheck(video_kind), calls |-> <<>>]
    ELSE IF PathCheck(audio_kind) # "none"
    THEN [raised |-> PathCheck(audio_kind), calls |-> <<>>]
    ELSE [raised |-> "none", calls |-> <<"replace">>]

\* the invocation of FFMpeg.extract_wav_fragment(start, end, wav_file)
fragment_call(kind, start, end) ==
    [raised |-> "none", calls |-> <<"fragment">>,
     fragment |-> extract_wav_fragment(start, end)]

\* the invocation of build_mc for a container whose tracks come from one file
mux_call(kind, mc) ==
    [raised |-> "none", calls |-> <<"mux">>,
     inputs |-> BuildLoop(mc, <<>>, <<>>, FALSE).inputs_l]

OpGetInfo ==
    /\ opOut = None
    /\ \E kind \in PathKinds, skip_validators \in BOOLEAN :
        LET out == get_info(kind, skip_validators) IN
        opOut' = Some([op |-> "get_info", paths |-> <<kind>>, raised |-> out.raised,
                       calls |-> out.calls])
    /\ UNCHANGED <<runVars, inputVars, translator, sinkVars, trVars, muxVars, parsed, mainOut>>

OpExtractAudio ==
    /\ opOut = None
    /\ \E kind \in PathKinds, suffix \in {"mkv", "mp4", "avi"} :
        LET out == extract_audio(kind, suffix) IN
        opOut' = Some([op |-> "extract_audio", paths |-> <<kind>>, raised |-> out.raised,
                       calls |-> out.calls])
    /\ UNCHANGED <<runVars, inputVars, translator, sinkVars, trVars, muxVars, parsed, mainOut>>

OpAacToWav ==
    /\ opOut = None
    /\ \E kind \in PathKinds :
        LET out == aac_to_wav(kind) IN
        opOut' = Some([op |-> "aac_to_wav", paths |-> <<kind>>, raised |-> out.raised,
                       calls |-> out.calls])
    /\ UNCHANGED <<runVars, inputVars, translator, sinkVars, trVars, muxVars, parsed, mainOut>>

OpWavToAac ==
    /\ opOut = None
    /\ \E kind \in PathKinds :
        LET out == wav_to_aac(kind) IN
        opOut' = Some([op |-> "wav_to_aac", paths |-> <<kind>>, raised |-> out.raised,
                       calls |-> out.calls])
    /\ UNCHANGED <<runVars, inputVars, translator, sinkVars, trVars, muxVars, parsed, mainOut>>

OpReplaceAudioLine ==
    /\ opOut = None
    /\ \E video_kind \in PathKinds, audio_kind \in PathKinds :
        LET out == replace_audio_line(video_kind, audio_kind) IN
        opOut' = Some([op |-> "replace_audio_line", paths |-> <<video_kind, audio_kind>>,
                       raised |-> out.raised, calls |-> out.calls])
    /\ UNCHANGED <<runVars, inputVars, translator, sinkVars, trVars, muxVars, parsed, mainOut>>

OpExtractWavFragment ==
    /\ opOut = None
    /\ \E kind \in PathKinds, start \in TimeChoices, end \in TimeChoices :
        /\ start <= end
        /\ LET out == fragment_call(kind, start, end) IN
           opOut' = Some([op |-> "extract_wav_fragment", paths |-> <<kind>>,
                          raised |-> out.raised, calls |-> out.calls,
                          fragment |-> out.fragment])
    /\ UNCHANGED <<runVars, inputVars, translator, sinkVars, trVars, muxVars, parsed, mainOut>>

OpBuildMc ==
    /\ opOut = None
    /\ \E kind \in PathKinds, mc \in ContainerChoices :
        /\ \A i \in 1..Len(mc) : mc[i].source = "a"
        /\ LET out == mux_call(kind, mc) IN
           opOut' = Some([op |-> "build_mc", paths |-> <<kind>>, raised |-> out.raised,
                          calls |-> out.calls, mc |-> mc])
    /\ UNCHANGED <<runVars, inputVars, translator, sinkVars, trVars, muxVars, parsed, mainOut>>

NextOps ==
    \/ OpGetInfo \/ OpExtractAudio \/ OpAacToWav \/ OpWavToAac
    \/ OpReplaceAudioLine \/ OpExtractWavFragment \/ OpBuildMc

InitOps == installed = {} /\ InitUnit

SpecOps == InitOps /\ [][NextOps]_vars

\* C24: every operation that hands a path to ffmpeg first checks that the path
\* exists and is a file: called on a path that is missing or is not a file it
\* raises and makes no ffmpeg invocation.
C24_PathCheckedFirst ==
    (~opOut.none /\ \E i \in 1..Len(opOut.val.paths) : opOut.val.paths[i] # "file") =>
        /\ opOut.val.raised # "none"
        /\ opOut.val.calls = <<>>

----------------------------------------------------------------------------
(* Properties of the pipeline: the queues, the joins and the two text stages *)

HasNone(queue) == \E i \in 1..Len(queue) : queue[i].none

\* _texts has seen None and left its loop
TextsLoopLeft == pcB \in {"register", "done"}

\* C25: the only thread that puts anything on translated_texts is _texts:
\* every step that lengthens the queue is its put of a batch or its own put
\* of None after its last batch.
C25_SingleProducer ==
    [][Len(translated_texts') > Len(translated_texts) => pcB' # pcB]_vars

\* C26: run joins _stt first: None is on russian_texts only after _stt has
\* returned and always behind every recognized line, so when _texts sees None
\* it has taken every recognized line, in the order they were put; and the
\* joins of the two other threads return only after None has been put on both
\* queues.
C26_RecognitionJoinedFirst ==
    /\ (HasNone(russian_texts) \/ TextsLoopLeft) => pcA = "done"
    /\ \A i \in 1..Len(russian_texts) :
         IF russian_texts[i].none THEN i = Len(russian_texts)
         ELSE russian_texts[i].val = recognized[Len(recognized) - Len(russian_texts) + i
                                                + (IF HasNone(russian_texts) THEN 1 ELSE 0)]
    /\ TextsLoopLeft =>
         /\ russian_texts = <<>>
         /\ Len(putF) = Len(recognized)
         /\ \A i \in 1..Len(putF) :
              putF[i] = extract_wav_fragment(recognized[i].start, recognized[i].end)
    /\ pcMain \in {"joinC", "assemble", "ran", "exited"} =>
         /\ pcA = "done"
         /\ HasNone(russian_texts) \/ TextsLoopLeft
         /\ HasNone(translated_texts) \/ LoopLeft

\* _texts has seen None after taking three recognized lines
C26_Witness ==
    /\ pcB = "done"
    /\ Len(recognized) = 3 /\ Len(putF) = 3
    /\ pcMain = "joinB"

\* C27: the i-th batch _texts puts holds exactly one Line per code of
\* (audio_codes | subtitle_codes) - {'ru'}: its lang is the code, its start
\* and end are those of the i-th recognized line and its text is
\* translate(line.text, code); no Line has lang 'ru'; and when _texts has
\* left its loop there is one batch per recognized line.
C27_BatchPerLine ==
    LET cs == InOrder((audio_codes \cup subtitle_codes) \ {"ru"}, 1) IN
    /\ Len(putB) <= Len(recognized)
    /\ TextsLoopLeft => Len(putB) = Len(recognized)
    /\ \A i \in 1..Len(putB) :
        /\ Len(putB[i]) = Len(cs)
        /\ \A k \in 1..Len(cs) :
            /\ putB[i][k].lang = cs[k] /\ putB[i][k].lang # "ru"
            /\ putB[i][k].start = recognized[i].start
            /\ putB[i][k].end = recognized[i].end
            /\ putB[i][k].text = Translate(translator, recognized[i].text, cs[k]).text
            /\ Translate(translator, recognized[i].text, cs[k]).raised = "none"

\* two batches of two translated lines each have been put, 'ru' subtitles
\* being requested as well
C27_Witness ==
    /\ Len(putB) >= 2 /\ Len(putB[2]) = 2
    /\ "ru" \in subtitle_codes
    /\ putB[2][2].text.route = <<"en", "fr">>

\* the positions of the tracks of a language in translated_subtitles
TracksOf(language) ==
    {i \in 1..Len(translated_subtitles) : translated_subtitles[i].language = language}

\* C28: with 'ru' among subtitle_codes, _texts sends every recognized line it
\* takes, in order, to its own writer, and after None it closes the writer and
\* registers exactly one 'ru' track on the writer's file, which then holds
\* the entries 1..n of the n recognized lines; without 'ru' no such writer is
\* opened and no 'ru' track is registered.
C28_SourceSubtitles ==
    /\ "ru" \notin subtitle_codes => ru_subs_writer.none /\ TracksOf("ru") = {}
    /\ ~ru_subs_writer.none =>
         LET w == ru_subs_writer.val IN
         /\ Len(w.file) <= Len(recognized)
         /\ \A i \in 1..Len(w.file) :
              w.file[i].number = i /\ w.file[i].body = as_srt_line(recognized[i])
         /\ w.closed <=> pcB = "done"
         /\ TracksOf("ru") = {} <=> pcB # "done"
    /\ ("ru" \in subtitle_codes /\ pcB = "done") =>
         /\ ~ru_subs_writer.none
         /\ Len(ru_subs_writer.val.file) = Len(recognized)
         /\ Cardinality(TracksOf("ru")) = 1
         /\ \A i \in TracksOf("ru") :
              /\ translated_subtitles[i].kind = "Subtitle"
              /\ translated_subtitles[i].source = ru_subs_writer.val.path

\* the 'ru' track has been registered on a file of three entries
C28_Witness ==
    /\ pcB = "done" /\ "ru" \in subtitle_codes
    /\ Len(ru_subs_writer.val.file) = 3
    /\ TracksOf("ru") # {}

\* C29: when _translated_texts has seen None it closes every writer it opened
\* and registers exactly one track per subtitle code other than 'ru', with
\* that code and that writer's file; and after None it sends no line to any
\* writer.
C29_SinksClosedOnSentinel ==
    /\ [](pcC = "done" =>
            /\ DOMAIN subs_writers = subtitle_codes \ {"ru"}
            /\ \A code \in subtitle_codes \ {"ru"} :
                /\ subs_writers[code].closed
                /\ Cardinality(TracksOf(code)) = 1
                /\ \A i \in TracksOf(code) :
                     /\ translated_subtitles[i].kind = "Subtitle"
                     /\ translated_subtitles[i].source = subs_writers[code].path)
    /\ [][LoopLeft => \A code \in DOMAIN subs_writers :
                         subs_writers'[code].file = subs_writers[code].file]_vars

\* the writers of two languages have been closed and registered after
\* receiving lines
C29_Witness ==
    /\ pcC = "done"
    /\ {"en", "fr"} \subseteq subtitle_codes
    /\ Len(subs_writers["en"].file) >= 2
    /\ TracksOf("en") # {} /\ TracksOf("fr") # {}

RECURSIVE LinesOf(_, _)
\* the lines of language code in the first n batches _translated_texts took
LinesOf(code, n) ==
    IF n = 0 THEN <<>>
    ELSE LinesOf(code, n - 1) \o SelectSeq(gotC[n].lines, LAMBDA l : l.lang = code)

\* the batches whose loop body has run
Processed == Len(gotC) - (IF pcC = "process" THEN 1 ELSE 0)

\* C30: a translated line is appended to a writer if and only if its language
\* is a subtitle code, and then to that language's writer; a line is
\* synthesized only if its language is an audio code. A language asked for
\* audio only has no subtitle entry and one asked for subtitles only has no
\* audio segment.
C30_RoutedByLanguage ==
    /\ pcC \notin {"idle", "open"} =>
        /\ DOMAIN subs_writers = subtitle_codes \ {"ru"}
        /\ \A code \in DOMAIN subs_writers :
            LET sent == LinesOf(code, Processed) IN
            /\ Len(subs_writers[code].file) = Len(sent)
            /\ \A i \in 1..Len(sent) : subs_writers[code].file[i].body = as_srt_line(sent[i])
    /\ \A i \in 1..Len(translated_audio) :
        /\ translated_audio[i].language \in audio_codes
        /\ translated_audio[i].line.lang = translated_audio[i].language

\* 'en' asked for audio only and 'fr' for subtitles only: segments of 'en'
\* and entries of 'fr' have been produced
C30_Witness ==
    /\ audio_codes = {"en"} /\ subtitle_codes = {"fr"}
    /\ Len(translated_audio) >= 2
    /\ pcC \notin {"idle", "open"} /\ Len(subs_writers["fr"].file) >= 2

----------------------------------------------------------------------------
(* Properties of the pipeline: synthesis, ordering and the fragment queue *)

\* the batch a synthesized segment's line belongs to
BatchOf(segment) == segment.line.text.src

\* C31: the lines of batch i-1, synthesized while batch i is processed, get
\* the fragment of batch i-1 (the one cut for their own recognized line) as
\* source_wav_fragment, never the fragment of batch i.
C31_PreviousFragmentUsed ==
    \A i \in 1..Len(translated_audio) :
        translated_audio[i].source_wav_fragment = putF[BatchOf(translated_audio[i])]

\* C32: the silence_amount given to the synthesis of every line of batch i-1
\* is the start of batch i minus the end of batch i-1.
C32_SilenceIsGap ==
    \A i \in 1..Len(translated_audio) :
        LET j == BatchOf(translated_audio[i]) IN
        /\ Len(gotC) >= j + 1
        /\ translated_audio[i].line \in Range(gotC[j].lines)
        /\ translated_audio[i].silence_amount =
             recognized[j + 1].start - recognized[j].end
        /\ \A k \in 1..Len(gotC[j + 1].lines) :
             translated_audio[i].silence_amount =
                 gotC[j + 1].lines[k].start - translated_audio[i].line.end

\* two lines of one batch have been synthesized, with a silence that is not
\* zero
C32_Witness ==
    /\ Len(translated_audio) >= 4
    /\ BatchOf(translated_audio[1]) = BatchOf(translated_audio[3])
    /\ translated_audio[1].line # translated_audio[3].line
    /\ translated_audio[1].silence_amount # 0

\* position of x in seq
PosIn(seq, x) == CHOOSE i \in 1..Len(seq) : seq[i] = x

\* C33: translated_audio is made of pairs: the spoken line, then its silence,
\* both with the line's language; its length is even and the pairs follow the
\* order in which the lines were taken (batch by batch, and inside a batch in
\* the batch's order).
C33_SpeechThenSilence ==
    /\ Len(translated_audio) % 2 = 0
    /\ \A k \in 1..(Len(translated_audio) \div 2) :
        LET speech == translated_audio[2 * k - 1]
            silence == translated_audio[2 * k]
        IN /\ speech.kind = "speech" /\ silence.kind = "silence"
           /\ speech.line = silence.line
           /\ speech.language = speech.line.lang /\ silence.language = speech.line.lang
    /\ \A k, m \in 1..(Len(translated_audio) \div 2) :
        k < m =>
            LET a == translated_audio[2 * k]
                b == translated_audio[2 * m]
            IN \/ BatchOf(a) < BatchOf(b)
               \/ /\ BatchOf(a) = BatchOf(b)
                  /\ PosIn(gotC[BatchOf(a)].lines, a.line) < PosIn(gotC[BatchOf(b)].lines, b.line)

\* the lines of two batches of two languages have been synthesized
C33_Witness ==
    /\ Len(translated_audio) = 8
    /\ translated_audio[1].language # translated_audio[3].language
    /\ BatchOf(translated_audio[1]) # BatchOf(translated_audio[5])

\* the milliseconds a written HH:MM:SS,mmm stands for
SrtTimeValue(str) ==
    LET n == Len(str) IN
    NumberOf(SubSeq(str, n - 2, n))
    + 1000 * NumberOf(SubSeq(str, n - 5, n - 4))
    + 60000 * NumberOf(SubSeq(str, n - 8, n - 7))
    + 3600000 * NumberOf(SubSeq(str, 1, n - 10))

\* the start times of the lines of seq never decrease
StartsOrdered(seq) == \A i \in 1..(Len(seq) - 1) : seq[i].start <= seq[i + 1].start

\* C34: when the recognized lines come with non-decreasing start times, the
\* entries k and k+1 of every subtitle file, 'ru' or not, have start times
\* with start(k) <= start(k+1).
C34_SubtitlesInTimeOrder ==
    StartsOrdered(recognized) =>
        \A w \in Writers : \A k \in 1..(Len(w.file) - 1) :
            SrtTimeValue(w.file[k].body.from) <= SrtTimeValue(w.file[k + 1].body.from)

\* the 'ru' file holds three entries and another file two, of later and later
\* starts
C34_Witness ==
    /\ ~ru_subs_writer.none /\ Len(ru_subs_writer.val.file) = 3
    /\ SrtTimeValue(ru_subs_writer.val.file[1].body.from)
         < SrtTimeValue(ru_subs_writer.val.file[3].body.from)
    /\ \E code \in DOMAIN subs_writers : Len(subs_writers[code].file) >= 2

\* the batches, None left out, waiting on translated_texts
WaitingBatches == Len(SelectSeq(translated_texts, LAMBDA item : ~item.none))

\* C35: _texts puts the fragment before its batch, so it has put at least as
\* many fragments as batches, and whenever _translated_texts has taken a
\* batch and is about to take its fragment, the fragment is on
\* sentences_origin.
C35_FragmentAvailable ==
    /\ Len(putF) >= Len(putB)
    /\ Len(sentences_origin) >=
         WaitingBatches + (IF pcC = "getFragment" THEN 1 ELSE 0)
    /\ pcC = "getFragment" => sentences_origin # <<>>

\* _translated_texts has taken its second batch and is about to take the
\* fragment
C35_Witness ==
    /\ pcC = "getFragment" /\ Len(gotC) = 1
    /\ Len(sentences_origin) >= 1

\* start <= end for every line, starts and ends never decreasing
Monotone(seq) ==
    /\ \A i \in 1..Len(seq) : seq[i].start <= seq[i].end
    /\ \A i \in 1..(Len(seq) - 1) :
         seq[i].start <= seq[i + 1].start /\ seq[i].end <= seq[i + 1].end

\* C38: for recognized lines with start <= end and non-decreasing starts and
\* ends, the silence_amount given to the synthesis is never negative.
C38_SilenceNotNegative ==
    Monotone(recognized) =>
        \A i \in 1..Len(translated_audio) : translated_audio[i].silence_amount >= 0

----------------------------------------------------------------------------
(* The pipeline under fair scheduling: each of the four threads that can
   take a step eventually takes one *)

MainNext ==
    \/ Construct \/ Enter \/ Exit
    \/ RunStart \/ JoinStt \/ PutNoneRussian \/ PutNoneTranslated
    \/ JoinTexts \/ JoinTranslated \/ Assemble

SttNext == SttEmit \/ SttReturn

TextsNext == TextsInit \/ TextsGet \/ TextsPutFragment \/ TextsPutBatch \/ TextsRegister

TranslatedNext ==
    \/ TranslatedOpen \/ TranslatedGet \/ TranslatedGetFragment
    \/ TranslatedProcess \/ TranslatedRegister

\* runs asked for 'en' audio, without subtitles or with 'ru' and 'fr' subtitles
InitFair ==
    /\ installed \in InstalledChoices
    /\ audio_codes = {"en"}
    /\ subtitle_codes \in {{}, {"ru", "fr"}}
    /\ RunIdle
    /\ UnitIdle

SpecFair ==
    /\ InitFair /\ [][Next]_vars
    /\ WF_vars(MainNext) /\ WF_vars(SttNext) /\ WF_vars(TextsNext) /\ WF_vars(TranslatedNext)

\* C36: under fair scheduling, every run that has started its three threads
\* reaches the point where all three have ended and both remaining joins
\* have returned, also when _texts dies of an exception.
C36_RunTerminates ==
    (pcMain = "joinA") ~>
        (pcMain = "assemble" /\ ThreadEnded(pcA) /\ ThreadEnded(pcB) /\ ThreadEnded(pcC))

\* the joins have returned in a run in which _texts died in translate after
\* lines were recognized
C36_Witness ==
    /\ pcMain = "assemble"
    /\ pcB = "dead" /\ translator.raised = "none"
    /\ pcC = "done" /\ Len(recognized) >= 2

----------------------------------------------------------------------------
(* Properties of the shared result lists *)

\* the 'ru' track is behind every other registered track
SourceTrackLast ==
    \A i \in TracksOf("ru") : \A j \in 1..Len(translated_subtitles) : j <= i

\* C37: the order of the tracks in translated_subtitles does not depend on
\* the interleaving of _texts and _translated_texts. An order fixed by the
\* inputs puts the 'ru' track either before every other track in all runs or
\* behind every other track in all runs; stated for the first, the order of
\* the stages (SourceTrackLast is the second).
C37_SourceTrackFirst ==
    \A i \in TracksOf("ru") : \A j \in 1..Len(translated_subtitles) : i <= j

----------------------------------------------------------------------------
(* Properties of Translator.translate, continued *)

\* C39: on every constructed Translator and for every target, translate
\* returns a translated text or fails with the error for an unsupported
\* language (the ValueError 'No such language' of the code), also for a
\* target of the transit map when no ru->en capability is installed.
C39_TranslateTotal ==
    Translated => trOut.val.result.raised \in {"none", "ValueError"}

----------------------------------------------------------------------------
(* Properties of the end of run *)

\* the three stage threads have returned or died
StagesEnded == \A pc \in {pcA, pcB, pcC} : pc \in {"done", "dead"}

\* run is past its joins
PastJoins == pcMain \in {"assemble", "ran", "exited"}

\* C40: run reads translated_audio and translated_subtitles, builds the
\* container and calls build_mc only after the three threads have ended; from
\* then on, and after __exit__ has removed the scratch directory, no thread
\* runs, and the lists and the subtitle files no longer change.
C40_AssembledAfterJoins ==
    /\ []((PastJoins \/ built # <<>>) => StagesEnded)
    /\ [](tempDirectory = "removed" =>
            \A pc \in {pcA, pcB, pcC} : pc \in {"idle", "done", "dead"})
    /\ [][(PastJoins \/ tempDirectory = "removed") =>
            /\ translated_audio' = translated_audio
            /\ translated_subtitles' = translated_subtitles
            /\ ru_subs_writer' = ru_subs_writer
            /\ subs_writers' = subs_writers]_vars

\* a run that produced segments and tracks has built its container and left
\* the with block
C40_Witness ==
    /\ pcMain = "exited" /\ tempDirectory = "removed"
    /\ built # <<>>
    /\ translated_audio # <<>> /\ translated_subtitles # <<>>

====
